---------------------------- MODULE Spec2Model ----------------------------
(***************************************************************************)
(* A model of z0rr0/ssf: the storage quota (config.Storage.Limit and       *)
(* config.Storage.initLimits), the file materializer (encrypt.createFile)  *)
(* and the envelope operations (encrypt.Text, DecryptText, File,           *)
(* DecryptFile) with the ciphers and the stream signer they are built on.  *)
(***************************************************************************)
EXTENDS Integers, Sequences, FiniteSets, TLC

\* ------------------------------------------------------------------ bounds
\* number of goroutines that call into the Storage concurrently
NumCallers == 4
\* number of initLimits calls one behaviour may start
MaxInits == 2
\* number of goroutines that call createFile concurrently
NumCreators == 2
\* number of Text, DecryptText, File and DecryptFile calls of one behaviour
MaxCalls == 2
\* number of Read and Write calls through one StreamSigner
MaxSignerCalls == 3
\* the most bytes one Read of a source or of a file delivers
MaxChunk == 2

\* ------------------------------------------------------------------ state
\* the storage quota (config.Storage) and the goroutines that call it
VARIABLES
  limit,     \* Storage.limit: the bytes reserved so far
  size,      \* Storage.Size: the capacity (megabytes until initLimits, then bytes)
  mutex,     \* Storage.Mutex: 0 when free, else the goroutine that holds it
  inits,     \* number of initLimits calls started
  qpc,       \* per goroutine: the place in Limit / initLimits
  qcall,     \* per goroutine: the method it runs
  qv,        \* per goroutine: the argument v of Limit
  qlimit,    \* per goroutine: the local variable limit of Limit
  qerr,      \* per goroutine: the returned error ("nil" is success)
  qdir       \* per goroutine: the dirEntries read by initLimits

qvars == <<limit, size, mutex, inits, qpc, qcall, qv, qlimit, qerr, qdir>>

\* the base directory and the goroutines that run createFile
VARIABLES
  fsys,        \* the base directory: name -> [exists, data, creator]
  cfpc,        \* per goroutine: the place in createFile
  cfname,      \* per goroutine: createFile's name
  cfi,         \* per goroutine: createFile's loop counter i
  cfattempts,  \* per goroutine: createFile's attempts
  cfret        \* per goroutine: what createFile returned, [f, err]

fvars == <<fsys, cfpc, cfname, cfi, cfattempts, cfret>>

\* the goroutine that calls Text, DecryptText, File and DecryptFile (it runs
\* createFile as goroutine 1), and what its caller holds
VARIABLES
  cpc,        \* the place in the running call, "idle" between calls
  cop,        \* the function called last
  calls,      \* number of calls started
  csecret,    \* the argument secret
  msg,        \* the *Msg of the call (File: m as it is built)
  ckey,       \* the local key
  rd,         \* File: the bytes the source reader has not delivered yet
  cpos,       \* the bytes the stream cipher has processed
  signer,     \* the StreamSigner of the call
  cout,       \* DecryptFile: the bytes the destination has accepted
  cret,       \* what the call returned: [m, text, err]
  fds,        \* the open files of the process, as <<call, name>>
  env,        \* the envelope the caller got from the last encryption
  encPlain,   \* the plaintext or stream the last encryption call was given
  encSecret,  \* the secret the last encryption call was given
  tampered,   \* 0, or the call before which a byte of the envelope's file changed
  draws,      \* number of values drawn from crypto/rand for salts
  saltDraw,   \* File: the draw that delivered the call's salt
  drawLog,    \* for every salt draw: [call, salt]
  encLog      \* for every stream.Encrypt run: [call, draw], draw that of its salt

cvars == <<cpc, cop, calls, csecret, msg, ckey, rd, cpos, signer, cout, cret, fds,
           env, encPlain, encSecret, tampered, draws, saltDraw, drawLog, encLog>>

\* a StreamSigner over a source and a destination that a caller reads and
\* writes through, and what the two streams did
VARIABLES
  sig,        \* the StreamSigner
  srcBytes,   \* the bytes its source has delivered
  dstBytes,   \* the bytes its destination has accepted
  sigRet,     \* the last call: [op, n, err], and un, the count of the stream
  sigCalls    \* number of Read and Write calls made

svars == <<sig, srcBytes, dstBytes, sigRet, sigCalls>>

vars == <<qvars, fvars, cvars, svars>>

\* a step of the quota alone, and a step of file creation alone
QuotaStep == UNCHANGED <<fvars, cvars, svars>>
FilesStep == UNCHANGED <<qvars, cvars, svars>>

\* ------------------------------------------------------- program constants
\* s.Size << 20: megabytes -> bytes
MBShift == 20
\* the number of random bytes of a storage file name
fileNameSize == 64
\* the number of attempts to create a new file with a unique name
fileCreateAttempts == 10
\* the number of random bytes of a salt
saltSize == 128
\* the key length for AES-256
aesKeyLength == 32
\* the length of a SHAKE256 sum
hashLength == 32
\* aes.BlockSize
aesBlockSize == 16

\* the largest integer the model lets a counter take (TLC's integers are 32 bit)
MaxModelInt == 2^30 + (2^30 - 1)

Min(a, b) == IF a < b THEN a ELSE b

\* ================================================================== quota
Callers == 1..NumCallers

\* the sizes Limit is called with
ReserveSizes == {0, 60, 100}
\* the capacities a Storage is constructed with
InitSizes == {0, 200}

\* a directory entry: a file or a directory, its size, and whether Info() fails
\* (the entry was removed between ReadDir and Info)
DirFile(n) == [isDir |-> FALSE, size |-> n, infoErr |-> FALSE]
DirSub(n) == [isDir |-> TRUE, size |-> n, infoErr |-> FALSE]
DirGone(n) == [isDir |-> FALSE, size |-> n, infoErr |-> TRUE]

\* what os.ReadDir(s.Dir) can return: [err, entries]
DirListings ==
  { [err |-> TRUE, entries |-> <<>>],
    [err |-> FALSE, entries |-> <<>>],
    [err |-> FALSE, entries |-> <<DirFile(100), DirFile(250), DirFile(5)>>],
    [err |-> FALSE, entries |-> <<DirFile(100), DirSub(4096), DirFile(5)>>],
    [err |-> FALSE, entries |-> <<DirFile(100), DirGone(250), DirFile(5)>>] }

QInit ==
  /\ limit = 0
  /\ size \in InitSizes
  /\ mutex = 0
  /\ inits = 0
  /\ qpc = [p \in Callers |-> "idle"]
  /\ qcall = [p \in Callers |-> "none"]
  /\ qv = [p \in Callers |-> 0]
  /\ qlimit = [p \in Callers |-> 0]
  /\ qerr = [p \in Callers |-> "none"]
  /\ qdir = [p \in Callers |-> <<>>]

\* a goroutine calls s.Limit(v)
CallLimit(p) ==
  /\ QuotaStep
  /\ qpc[p] = "idle"
  /\ \E v \in ReserveSizes :
       /\ qv' = [qv EXCEPT ![p] = v]
       /\ qcall' = [qcall EXCEPT ![p] = "Limit"]
       /\ qpc' = [qpc EXCEPT ![p] = "lock"]
  /\ UNCHANGED <<limit, size, mutex, inits, qlimit, qerr, qdir>>

\* a lock that lets a goroutine in while another holds it
LockNoExclusion(p) ==
  /\ QuotaStep
  /\ qpc[p] = "lock"
  /\ mutex' = p
  /\ qpc' = [qpc EXCEPT ![p] = IF qcall[p] = "Limit" THEN "check" ELSE "scan"]
  /\ UNCHANGED <<limit, size, inits, qcall, qv, qlimit, qerr, qdir>>

\* s.Lock(): blocks until the mutex is free
Lock(p) ==
  /\ QuotaStep
  /\ qpc[p] = "lock"
  /\ mutex = 0
  /\ mutex' = p
  /\ qpc' = [qpc EXCEPT ![p] = IF qcall[p] = "Limit" THEN "check" ELSE "scan"]
  /\ UNCHANGED <<limit, size, inits, qcall, qv, qlimit, qerr, qdir>>

\* the comparison taken as limit >= s.Size
LimitCheckOffByOne(p) ==
  /\ QuotaStep
  /\ qpc[p] = "check"
  /\ qlimit' = [qlimit EXCEPT ![p] = limit + qv[p]]
  /\ IF limit + qv[p] >= size
       THEN /\ qerr' = [qerr EXCEPT ![p] = "ErrSizeLimit"]
            /\ qpc' = [qpc EXCEPT ![p] = "unlock"]
       ELSE /\ qerr' = qerr
            /\ qpc' = [qpc EXCEPT ![p] = "commit"]
  /\ UNCHANGED <<limit, size, mutex, inits, qcall, qv, qdir>>

\* limit := s.limit + v; if limit > s.Size { return ErrSizeLimit }
LimitCheck(p) ==
  /\ QuotaStep
  /\ qpc[p] = "check"
  /\ qlimit' = [qlimit EXCEPT ![p] = limit + qv[p]]
  /\ IF limit + qv[p] > size
       THEN /\ qerr' = [qerr EXCEPT ![p] = "ErrSizeLimit"]
            /\ qpc' = [qpc EXCEPT ![p] = "unlock"]
       ELSE /\ qerr' = qerr
            /\ qpc' = [qpc EXCEPT ![p] = "commit"]
  /\ UNCHANGED <<limit, size, mutex, inits, qcall, qv, qdir>>

\* s.limit = limit; return nil
LimitCommit(p) ==
  /\ QuotaStep
  /\ qpc[p] = "commit"
  /\ limit' = qlimit[p]
  /\ qerr' = [qerr EXCEPT ![p] = "nil"]
  /\ qpc' = [qpc EXCEPT ![p] = "unlock"]
  /\ UNCHANGED <<size, mutex, inits, qcall, qv, qlimit, qdir>>

\* the deferred s.Unlock(), then the return
Unlock(p) ==
  /\ QuotaStep
  /\ qpc[p] = "unlock"
  /\ mutex' = 0
  /\ qpc' = [qpc EXCEPT ![p] = "done"]
  /\ UNCHANGED <<limit, size, inits, qcall, qv, qlimit, qerr, qdir>>

\* x << 20
ShiftMB(x) == x * 2^MBShift

\* the loop of initLimits over dirEntries from entry i, with s.limit = acc:
\* [limit, err] when the loop ends or dirEntry.Info() fails
RECURSIVE ScanEntries(_, _, _)
ScanEntries(entries, i, acc) ==
  IF i > Len(entries) THEN [limit |-> acc, err |-> "nil"]
  ELSE IF entries[i].isDir THEN ScanEntries(entries, i + 1, acc)
  ELSE IF entries[i].infoErr THEN [limit |-> acc, err |-> "ErrInfo"]
  ELSE ScanEntries(entries, i + 1, acc + entries[i].size)

\* a goroutine calls s.initLimits(); the model starts a call only when the
\* shifted capacity stays below MaxModelInt
CallInitLimits(p) ==
  /\ QuotaStep
  /\ qpc[p] = "idle"
  /\ inits < MaxInits
  /\ \/ size = 0
     \/ /\ size <= MaxModelInt \div 2^MBShift
        /\ \A q \in Callers : qcall[q] = "initLimits" => qpc[q] \in {"unlock", "done"}
  /\ inits' = inits + 1
  /\ qcall' = [qcall EXCEPT ![p] = "initLimits"]
  /\ qpc' = [qpc EXCEPT ![p] = "lock"]
  /\ UNCHANGED <<limit, size, mutex, qv, qlimit, qerr, qdir>>

\* the body of initLimits under the lock: os.ReadDir, s.Size << 20, the loop
InitLimitsScan(p) ==
  /\ QuotaStep
  /\ qpc[p] = "scan"
  /\ \E d \in DirListings :
       /\ qdir' = [qdir EXCEPT ![p] = d.entries]
       /\ IF d.err
            THEN /\ qerr' = [qerr EXCEPT ![p] = "ErrReadDir"]
                 /\ UNCHANGED <<limit, size>>
            ELSE LET r == ScanEntries(d.entries, 1, limit) IN
                 /\ size' = ShiftMB(size)
                 /\ limit' = r.limit
                 /\ qerr' = [qerr EXCEPT ![p] = r.err]
  /\ qpc' = [qpc EXCEPT ![p] = "unlock"]
  /\ UNCHANGED <<mutex, inits, qcall, qv, qlimit>>

\* ================================================================== bytes
\* hex.EncodeToString's alphabet
HexDigits == <<"0", "1", "2", "3", "4", "5", "6", "7",
               "8", "9", "a", "b", "c", "d", "e", "f">>

\* hex.EncodeToString: two digits a byte, the high nibble first
HexEncode(b) ==
  [i \in 1..(2 * Len(b)) |->
     IF i % 2 = 1 THEN HexDigits[(b[(i + 1) \div 2] \div 16) + 1]
                  ELSE HexDigits[(b[i \div 2] % 16) + 1]]

\* a Go string of the characters of cs
RECURSIVE GoString(_)
GoString(cs) ==
  IF Len(cs) = 0 THEN ""
  ELSE IF Len(cs) = 1 THEN cs[1]
  ELSE LET h == Len(cs) \div 2 IN
       GoString(SubSeq(cs, 1, h)) \o GoString(SubSeq(cs, h + 1, Len(cs)))

\* the seeds of the byte strings the model lets crypto/rand deliver
RandSeeds == {7, 200}

\* Random(n): rand.Read fails, or fills the n bytes
Random(n) ==
  {[err |-> TRUE, value |-> <<>>]} \cup
  {[err |-> FALSE, value |-> [i \in 1..n |-> (b + i) % 256]] : b \in RandSeeds}

\* ================================================================ ciphers
\* a XOR b on bytes, bit by bit from the lowest of the k bits left
RECURSIVE XorBits(_, _, _)
XorBits(a, b, k) ==
  IF k = 0 THEN 0
  ELSE ((a + b) % 2) + 2 * XorBits(a \div 2, b \div 2, k - 1)

Xor(a, b) == XorBits(a, b, 8)

\* the characters hex.DecodeString takes, with their values
HexValue ==
  [c \in {HexDigits[i] : i \in 1..16} \cup {"A", "B", "C", "D", "E", "F"} |->
     CASE c = "A" -> 10 [] c = "B" -> 11 [] c = "C" -> 12
       [] c = "D" -> 13 [] c = "E" -> 14 [] c = "F" -> 15
       [] OTHER -> (CHOOSE i \in 1..16 : HexDigits[i] = c) - 1]

\* hex.DecodeString: [err, bytes]; an odd length or a character that is no hex
\* digit is an error
HexDecode(s) ==
  IF Len(s) % 2 = 1 \/ \E i \in 1..Len(s) : s[i] \notin DOMAIN HexValue
    THEN [err |-> TRUE, bytes |-> <<>>]
    ELSE [err |-> FALSE,
          bytes |-> [i \in 1..(Len(s) \div 2) |->
                       16 * HexValue[s[2 * i - 1]] + HexValue[s[2 * i]]]]

\* the sum over i in lo..hi of (d[i] + 1) * (a * i + b), modulo m
RECURSIVE WeightedSum(_, _, _, _, _, _)
WeightedSum(d, lo, hi, a, b, m) ==
  IF lo > hi THEN 0
  ELSE IF lo = hi THEN ((d[lo] + 1) * (a * lo + b)) % m
  ELSE LET mid == (lo + hi) \div 2 IN
       (WeightedSum(d, lo, mid, a, b, m) + WeightedSum(d, mid + 1, hi, a, b, m)) % m

\* The library functions SHAKE256, PBKDF2 and AES are not part of the
\* repository.  Each is modelled as a fixed function with the output length
\* of the original, built from two checksums of its input, so that the inputs
\* the model uses (and any two inputs that differ in a single byte) have
\* different outputs.
Digest(d, n, tag) ==
  LET c1 == (WeightedSum(d, 1, Len(d), 2, 1, 65521) + 7 * Len(d) + tag) % 65521
      c2 == (WeightedSum(d, 1, Len(d), 5, 3, 65519) + 11 * tag) % 65519
  IN [i \in 1..n |->
        CASE i = 1 -> c1 \div 256
          [] i = 2 -> c1 % 256
          [] i = 3 -> c2 \div 256
          [] i = 4 -> c2 % 256
          [] OTHER -> (c1 + c2 * i + tag) % 256]

\* sha3.ShakeSum256(b, data) with len(b) = hashLength
Hash(data) == Digest(data, hashLength, 1)

\* pbkdf2.Key(secret, salt, pbkdf2Iter, aesKeyLength, sha3.New512)
Pbkdf2(secret, salt) == Digest(secret \o <<0>> \o salt, aesKeyLength, 2)

\* Key(secret, salt): the key and the hash of key || salt
Key(secret, salt) ==
  LET key == Pbkdf2(secret, salt) IN [key |-> key, hash |-> Hash(key \o salt)]

\* hmac.Equal
HmacEqual(a, b) == a = b

\* the AES encryption of one block under key
AESBlock(key, block) == Digest(key \o block, aesBlockSize, 3)

\* the zero IV of the stream cipher
ZeroIV == [i \in 1..aesBlockSize |-> 0]

\* cipher.NewOFB(block, iv): the j-th block of the key stream
RECURSIVE OFBBlock(_, _)
OFBBlock(key, j) ==
  IF j = 1 THEN AESBlock(key, ZeroIV) ELSE AESBlock(key, OFBBlock(key, j - 1))

\* XORKeyStream of the OFB stream: the bytes p, the first of them at position
\* pos (from 0) of the stream
OFBXor(key, pos, p) ==
  [i \in 1..Len(p) |->
     Xor(p[i], OFBBlock(key, ((pos + i - 1) \div aesBlockSize) + 1)
                        [((pos + i - 1) % aesBlockSize) + 1])]

\* cipher.NewCFBEncrypter(block, iv).XORKeyStream: prev is the IV, then the
\* ciphertext block before
RECURSIVE CFBEncrypt(_, _, _)
CFBEncrypt(key, prev, p) ==
  IF Len(p) = 0 THEN <<>>
  ELSE LET n == Min(aesBlockSize, Len(p))
           ks == AESBlock(key, prev)
           c == [i \in 1..n |-> Xor(p[i], ks[i])]
       IN c \o CFBEncrypt(key, c, SubSeq(p, n + 1, Len(p)))

\* cipher.NewCFBDecrypter(block, iv).XORKeyStream
RECURSIVE CFBDecrypt(_, _, _)
CFBDecrypt(key, prev, c) ==
  IF Len(c) = 0 THEN <<>>
  ELSE LET n == Min(aesBlockSize, Len(c))
           ks == AESBlock(key, prev)
           blk == SubSeq(c, 1, n)
       IN [i \in 1..n |-> Xor(c[i], ks[i])]
            \o CFBDecrypt(key, blk, SubSeq(c, n + 1, Len(c)))

\* text.Encrypt(plainText, key) with r what rand.Reader delivers for the IV:
\* [err, out]
TextEncrypt(plainText, key, r) ==
  IF Len(plainText) = 0 THEN [err |-> "ErrEmpty", out |-> <<>>]
  ELSE IF r.err THEN [err |-> "iv random generation", out |-> <<>>]
  ELSE [err |-> "nil", out |-> r.value \o CFBEncrypt(key, r.value, plainText)]

\* text.Decrypt(cipherText, key): [err, out]
TextDecrypt(cipherText, key) ==
  IF Len(cipherText) = 0 THEN [err |-> "ErrEmpty", out |-> <<>>]
  ELSE IF Len(cipherText) < aesBlockSize
    THEN [err |-> "invalid decryption cipher block length", out |-> <<>>]
  ELSE [err |-> "nil",
        out |-> CFBDecrypt(key, SubSeq(cipherText, 1, aesBlockSize),
                           SubSeq(cipherText, aesBlockSize + 1, Len(cipherText)))]

\* ========================================================== file creation
Creators == 1..NumCreators

\* the names callers pass to createFile ("" asks for a random name)
ExplicitNames == {"x"}
\* the names createFile can generate
\* name = hex.EncodeToString(value), for the values Random(fileNameSize) delivers
FileNameOf ==
  [v \in {r.value : r \in {o \in Random(fileNameSize) : ~o.err}} |->
     GoString(HexEncode(v))]
RandomNames == {FileNameOf[v] : v \in DOMAIN FileNameOf}
FileNames == RandomNames \cup ExplicitNames

NoFile == [exists |-> FALSE, data |-> <<>>, creator |-> 0]
\* a file that was in the directory before any call (creator 0)
OldFile == [exists |-> TRUE, data |-> <<111, 108, 100>>, creator |-> 0]
\* a nil *os.File
NoHandle == ""

CfIdle ==
  /\ cfpc = [p \in Creators |-> "idle"]
  /\ cfname = [p \in Creators |-> ""]
  /\ cfi = [p \in Creators |-> 0]
  /\ cfattempts = [p \in Creators |-> 0]
  /\ cfret = [p \in Creators |-> [f |-> NoHandle, err |-> "none"]]

\* a directory that holds any of the names already
FInit ==
  /\ \E old \in SUBSET FileNames :
       fsys = [n \in FileNames |-> IF n \in old THEN OldFile ELSE NoFile]
  /\ CfIdle

\* createFile(base, name) is entered: attempts, i := 0
EnterCreateFile(p, name) ==
  /\ cfname' = [cfname EXCEPT ![p] = name]
  /\ cfattempts' = [cfattempts EXCEPT ![p] =
                      IF name # "" THEN 1 ELSE fileCreateAttempts]
  /\ cfi' = [cfi EXCEPT ![p] = 0]
  /\ cfpc' = [cfpc EXCEPT ![p] = "loop"]
  /\ cfret' = [cfret EXCEPT ![p] = [f |-> NoHandle, err |-> "none"]]

\* a goroutine calls createFile
CallCreateFile(p) ==
  /\ FilesStep
  /\ cfpc[p] = "idle"
  /\ \E name \in ExplicitNames \cup {""} : EnterCreateFile(p, name)
  /\ UNCHANGED fsys

\* an open without O_EXCL: an existing file is opened as it is
OpenFileNoExcl(fs, name, p) ==
  {[err |-> "EIO", fs |-> fs]} \cup
  (IF fs[name].exists
     THEN {[err |-> "nil", fs |-> fs]}
     ELSE {[err |-> "nil",
            fs |-> [fs EXCEPT ![name] =
                      [exists |-> TRUE, data |-> <<>>, creator |-> p]]]})

\* os.OpenFile(fullPath, O_WRONLY|O_CREATE|O_EXCL, 0600) by goroutine p: the
\* outcomes [err, fs]; the file system creates the file or reports EEXIST in one
\* step, and any call may fail otherwise (EIO stands for every other error)
OpenFileExcl(fs, name, p) ==
  {[err |-> "EIO", fs |-> fs]} \cup
  (IF fs[name].exists
     THEN {[err |-> "EEXIST", fs |-> fs]}
     ELSE {[err |-> "nil",
            fs |-> [fs EXCEPT ![name] =
                      [exists |-> TRUE, data |-> <<>>, creator |-> p]]]})

\* createFile returns (f, err)
CreateFileReturn(p, f, err) ==
  /\ cfret' = [cfret EXCEPT ![p] = [f |-> f, err |-> err]]
  /\ cfpc' = [cfpc EXCEPT ![p] = "done"]
  /\ UNCHANGED <<cfname, cfi, cfattempts>>

\* a test that takes every error for a name collision
IsExistAny(err) == err # "nil"

\* os.IsExist(err)
IsExist(err) == err = "EEXIST"

\* one pass of createFile's loop: the random name when name is empty, then
\* os.OpenFile
CreateFileAttempt(p) ==
  /\ FilesStep
  /\ cfpc[p] = "loop"
  /\ cfi[p] < cfattempts[p]
  /\ \E r \in (IF cfname[p] = "" THEN Random(fileNameSize)
                                   ELSE {[err |-> FALSE, value |-> <<>>]}) :
       IF r.err
         THEN /\ CreateFileReturn(p, NoHandle, "random file name")
              /\ UNCHANGED fsys
         ELSE LET name == IF cfname[p] = "" THEN FileNameOf[r.value]
                                                ELSE cfname[p] IN
              \E o \in OpenFileExcl(fsys, name, p) :
                /\ fsys' = o.fs
                /\ IF o.err = "nil" THEN CreateFileReturn(p, name, "nil")
                   ELSE IF ~IsExist(o.err)
                     THEN CreateFileReturn(p, NoHandle, "random file creation")
                   ELSE /\ cfname' = [cfname EXCEPT ![p] = ""]
                        /\ cfi' = [cfi EXCEPT ![p] = cfi[p] + 1]
                        /\ UNCHANGED <<cfpc, cfattempts, cfret>>

\* the loop ends without a file
CreateFileExhausted(p) ==
  /\ FilesStep
  /\ cfpc[p] = "loop"
  /\ cfi[p] >= cfattempts[p]
  /\ CreateFileReturn(p, NoHandle, "can not create new file")
  /\ UNCHANGED fsys

\* ============================================================== envelopes
\* the secrets, plaintexts and byte streams callers pass
Secrets == {<<115>>, <<116>>}
PlainTexts == {<<>>, <<104, 105>>}
Streams == {<<>>, <<97, 98>>}
\* what a caller may put into the DataHash field of a text envelope
DataHashChoices == {<<>>, <<"0", "0", "f", "f">>, <<"z", "z">>, <<"a", "b", "c">>}

\* a zero Msg
NoMsg == [Salt |-> <<>>, Value |-> <<>>, KeyHash |-> <<>>, DataHash |-> <<>>,
          s |-> <<>>, v |-> <<>>, kh |-> <<>>, dh |-> <<>>]

\* (m *Msg) encode(withValue)
MsgEncode(m, withValue) ==
  [m EXCEPT !.Salt = HexEncode(m.s),
            !.KeyHash = HexEncode(m.kh),
            !.DataHash = HexEncode(m.dh),
            !.Value = IF withValue THEN HexEncode(m.v) ELSE m.Value]

\* a decode that leaves the DataHash field alone
MsgDecodeNoDataHash(m, withValue) ==
  LET ds == HexDecode(m.Salt)
      dk == HexDecode(m.KeyHash)
      dv == HexDecode(m.Value)
  IN IF ds.err THEN [m |-> m, err |-> "hex decode salt"]
     ELSE IF dk.err
       THEN [m |-> [m EXCEPT !.s = ds.bytes], err |-> "hex decode key hash"]
     ELSE IF ~withValue
       THEN [m |-> [m EXCEPT !.s = ds.bytes, !.kh = dk.bytes], err |-> "nil"]
     ELSE IF dv.err
       THEN [m |-> [m EXCEPT !.s = ds.bytes, !.kh = dk.bytes],
             err |-> "hex decode value"]
     ELSE [m |-> [m EXCEPT !.s = ds.bytes, !.kh = dk.bytes, !.v = dv.bytes],
           err |-> "nil"]

\* (m *Msg) decode(withValue): [m, err]; the fields are decoded in the order
\* Salt, KeyHash, DataHash, Value and the first failure returns
MsgDecode(m, withValue) ==
  LET ds == HexDecode(m.Salt)
      dk == HexDecode(m.KeyHash)
      dd == HexDecode(m.DataHash)
      dv == HexDecode(m.Value)
  IN IF ds.err THEN [m |-> m, err |-> "hex decode salt"]
     ELSE IF dk.err
       THEN [m |-> [m EXCEPT !.s = ds.bytes], err |-> "hex decode key hash"]
     ELSE IF dd.err
       THEN [m |-> [m EXCEPT !.s = ds.bytes, !.kh = dk.bytes],
             err |-> "hex decode data hash"]
     ELSE IF ~withValue
       THEN [m |-> [m EXCEPT !.s = ds.bytes, !.kh = dk.bytes, !.dh = dd.bytes],
             err |-> "nil"]
     ELSE IF dv.err
       THEN [m |-> [m EXCEPT !.s = ds.bytes, !.kh = dk.bytes, !.dh = dd.bytes],
             err |-> "hex decode value"]
     ELSE [m |-> [m EXCEPT !.s = ds.bytes, !.kh = dk.bytes, !.dh = dd.bytes,
                           !.v = dv.bytes],
           err |-> "nil"]

\* NewStreamSigner(src, dst): a hash for each side that is not nil
NewStreamSigner(hasSrc, hasDst) ==
  [rOn |-> hasSrc, wOn |-> hasDst, rHash |-> <<>>, wHash |-> <<>>,
   rDone |-> FALSE, wDone |-> FALSE]

NoSigner == NewStreamSigner(FALSE, FALSE)

\* (s *StreamSigner) Read(p) when s.R.Read(p) delivered data with error err:
\* [n, err, signer]
SignerRead(sg, data, err) ==
  IF err # "nil" THEN [n |-> 0, err |-> err, signer |-> sg]
  ELSE [n |-> Len(data), err |-> "nil",
        signer |-> [sg EXCEPT !.rHash = @ \o data,
                              !.rDone = @ \/ Len(data) > 0]]

\* a Write that reports all of p written whatever the destination did
SignerWriteHidesError(sg, p, n, err) ==
  [n |-> Len(p), err |-> "nil",
   signer |-> [sg EXCEPT !.wHash = @ \o p, !.wDone = @ \/ Len(p) > 0]]

\* (s *StreamSigner) Write(p) when s.W.Write(p) accepted n bytes with error
\* err: [n, err, signer]
SignerWrite(sg, p, n, err) ==
  IF err # "nil" THEN [n |-> n, err |-> err, signer |-> sg]
  ELSE [n |-> n, err |-> "nil",
        signer |-> [sg EXCEPT !.wHash = @ \o SubSeq(p, 1, n),
                              !.wDone = @ \/ n > 0]]

\* signerHash(written, h): [err, sum]; on is h # nil, fed the bytes h took
SignerHash(written, on, fed) ==
  IF ~written \/ ~on THEN [err |-> "ErrHash", sum |-> <<>>]
  ELSE [err |-> "nil", sum |-> Hash(fed)]

\* a comparison that accepts every fingerprint
SecretAlwaysMatches(hash, kh) == TRUE

\* !hmac.Equal(hash, m.kh) is the secret mismatch
SecretMatches(hash, kh) == HmacEqual(hash, kh)

\* a comparison that accepts every digest
DigestAlwaysMatches(dh, mdh) == TRUE

\* !hmac.Equal(dh, m.dh) is the integrity mismatch
DigestMatches(dh, mdh) == HmacEqual(dh, mdh)

\* what one Read of File's source can deliver from the bytes left: [n, err],
\* the last bytes with io.EOF or before it, as io.Reader allows
SourceReads(left) ==
  {[n |-> n, err |-> "nil"] : n \in 1..Min(Len(left), MaxChunk)} \cup
  (IF Len(left) <= MaxChunk THEN {[n |-> Len(left), err |-> "EOF"]} ELSE {}) \cup
  {[n |-> 0, err |-> "EIO"]}

\* what one Read of an *os.File can deliver at offset off: [n, err]
FileReads(data, off) ==
  (IF off >= Len(data)
     THEN {[n |-> 0, err |-> "EOF"]}
     ELSE {[n |-> n, err |-> "nil"] : n \in 1..Min(Len(data) - off, MaxChunk)})
  \cup {[n |-> 0, err |-> "EIO"]}

\* what one Write of len bytes to DecryptFile's destination can do: [n, err]
DestWrites(len) ==
  {[n |-> len, err |-> "nil"]} \cup {[n |-> n, err |-> "EIO"] : n \in 0..(len - 1)}

\* os.Open(name): the error
OpenFile(fs, name) ==
  IF ~fs[name].exists THEN {"ENOENT"} ELSE {"nil", "EIO"}

NoEnv == [kind |-> "none", Salt |-> <<>>, Value |-> <<>>, KeyHash |-> <<>>,
          DataHash |-> <<>>]
NoRet == [m |-> NoMsg, text |-> <<>>, err |-> "none"]

\* the envelope a caller keeps of a returned Msg: its exported fields
EnvOf(kind, m) ==
  [kind |-> kind, Salt |-> m.Salt, Value |-> m.Value, KeyHash |-> m.KeyHash,
   DataHash |-> m.DataHash]

\* the Msg a caller builds from an envelope, with DataHash d
MsgOf(e, d) ==
  [NoMsg EXCEPT !.Salt = e.Salt, !.Value = e.Value, !.KeyHash = e.KeyHash,
                !.DataHash = d]

CIdle ==
  /\ cpc = "idle" /\ cop = "none" /\ calls = 0
  /\ csecret = <<>> /\ msg = NoMsg /\ ckey = <<>>
  /\ rd = <<>> /\ cpos = 0 /\ signer = NoSigner /\ cout = <<>>
  /\ cret = NoRet /\ fds = {}
  /\ env = NoEnv /\ encPlain = <<>> /\ encSecret = <<>> /\ tampered = 0
  /\ draws = 0 /\ saltDraw = 0 /\ drawLog = <<>> /\ encLog = <<>>

\* the call returns: the locals are gone
Return(m, text, err) ==
  /\ cpc' = "idle"
  /\ cret' = [m |-> m, text |-> text, err |-> err]
  /\ ckey' = <<>>
  /\ rd' = <<>>
  /\ cpos' = 0
  /\ signer' = NoSigner
  /\ saltDraw' = 0

\* a call of one of the four functions starts
Enter(op, s) ==
  /\ cpc = "idle"
  /\ calls < MaxCalls
  /\ calls' = calls + 1
  /\ cop' = op
  /\ csecret' = s

\* a salt taken from what an earlier call drew, when there is one
SaltReused(r) ==
  IF encLog # <<>>
    THEN [err |-> FALSE, salt |-> drawLog[encLog[Len(encLog)].draw].salt,
          draw |-> encLog[Len(encLog)].draw]
    ELSE [err |-> r.err, salt |-> r.value, draw |-> draws + 1]

\* Salt() with r what Random(saltSize) delivers: [err, salt, draw], draw the
\* number of this draw from crypto/rand
Salt(r) == [err |-> r.err, salt |-> r.value, draw |-> draws + 1]

\* the draw of Salt(r) is recorded
RecordDraw(sl) ==
  IF sl.draw > draws
    THEN /\ draws' = draws + 1
         /\ drawLog' = Append(drawLog, [call |-> calls + 1, salt |-> sl.salt])
    ELSE UNCHANGED <<draws, drawLog>>

\* Text(secret, plainText)
TextCall ==
  /\ UNCHANGED <<qvars, svars, fvars>>
  /\ \E s \in Secrets, plainText \in PlainTexts,
        r \in Random(saltSize), ri \in Random(aesBlockSize) :
       LET sl == Salt(r)
           k == Key(s, sl.salt)
           e == TextEncrypt(plainText, k.key, ri)
           m == MsgEncode([NoMsg EXCEPT !.v = e.out, !.s = sl.salt,
                                        !.kh = k.hash], TRUE)
       IN /\ Enter("Text", s)
          /\ RecordDraw(sl)
          /\ encPlain' = plainText
          /\ encSecret' = s
          /\ tampered' = 0
          /\ IF sl.err
               THEN msg' = NoMsg /\ env' = NoEnv /\ Return(NoMsg, <<>>, "read rand")
             ELSE IF e.err # "nil"
               THEN msg' = NoMsg /\ env' = NoEnv /\ Return(NoMsg, <<>>, e.err)
             ELSE msg' = m /\ env' = EnvOf("text", m) /\ Return(m, <<>>, "nil")
          /\ UNCHANGED <<cout, fds, encLog>>

\* DecryptText(secret, m) up to the comparison of the key hashes
DecryptTextCall ==
  /\ UNCHANGED <<qvars, svars, fvars>>
  /\ env.kind = "text"
  /\ \E s \in Secrets, d \in DataHashChoices :
       LET dec == MsgDecode(MsgOf(env, d), TRUE)
           k == Key(s, dec.m.s)
       IN /\ Enter("DecryptText", s)
          /\ msg' = dec.m
          /\ IF dec.err # "nil" THEN Return(NoMsg, <<>>, dec.err)
             ELSE IF ~SecretMatches(k.hash, dec.m.kh)
               THEN Return(NoMsg, <<>>, "ErrSecret")
             ELSE /\ cpc' = "DecryptText.decrypt"
                  /\ ckey' = k.key
                  /\ cret' = NoRet
                  /\ UNCHANGED <<rd, cpos, signer, saltDraw>>
  /\ UNCHANGED <<cout, fds, env, encPlain, encSecret, tampered, draws, drawLog,
                 encLog>>

\* DecryptText: text.Decrypt(m.v, key) and the return
DecryptTextDecrypt ==
  /\ UNCHANGED <<qvars, svars, fvars>>
  /\ cpc = "DecryptText.decrypt"
  /\ LET r == TextDecrypt(msg.v, ckey) IN Return(NoMsg, r.out, r.err)
  /\ UNCHANGED <<cop, calls, csecret, msg, cout, fds, env, encPlain, encSecret,
                 tampered, draws, drawLog, encLog>>

\* File(secret, src, base, name) up to the call of createFile
FileCall ==
  /\ UNCHANGED <<qvars, svars>>
  /\ \E s \in Secrets, b \in Streams, name \in {""}, r \in Random(saltSize) :
       LET sl == Salt(r)
       IN /\ Enter("File", s)
          /\ RecordDraw(sl)
          /\ encPlain' = b
          /\ encSecret' = s
          /\ IF sl.err
               THEN /\ msg' = NoMsg
                    /\ Return(NoMsg, <<>>, "read rand")
                    /\ UNCHANGED fvars
               ELSE /\ msg' = [NoMsg EXCEPT !.s = sl.salt]
                    /\ saltDraw' = sl.draw
                    /\ rd' = b
                    /\ cpc' = "File.createFile"
                    /\ cret' = NoRet
                    /\ EnterCreateFile(1, name)
                    /\ UNCHANGED <<fsys, ckey, cpos, signer>>
  /\ tampered' = 0
  /\ env' = NoEnv
  /\ UNCHANGED <<cout, fds, encLog>>

\* File: createFile has returned (its frame is gone); Key, NewStreamSigner and
\* the start of stream.Encrypt
FileCreated ==
  /\ UNCHANGED <<qvars, svars>>
  /\ cpc = "File.createFile"
  /\ cfpc[1] = "done"
  /\ cfpc' = [cfpc EXCEPT ![1] = "idle"]
  /\ cfret' = [cfret EXCEPT ![1] = [f |-> NoHandle, err |-> "none"]]
  /\ cfname' = [cfname EXCEPT ![1] = ""]
  /\ cfi' = [cfi EXCEPT ![1] = 0]
  /\ cfattempts' = [cfattempts EXCEPT ![1] = 0]
  /\ UNCHANGED fsys
  /\ IF cfret[1].err # "nil"
       THEN /\ Return(NoMsg, <<>>, "open file for ecryption")
            /\ msg' = NoMsg
            /\ UNCHANGED <<fds, encLog>>
       ELSE LET k == Key(csecret, msg.s) IN
            /\ ckey' = k.key
            /\ msg' = [msg EXCEPT !.kh = k.hash, !.Value = cfret[1].f]
            /\ signer' = NewStreamSigner(TRUE, FALSE)
            /\ cpos' = 0
            /\ cpc' = "File.copy"
            /\ cret' = NoRet
            /\ fds' = fds \cup {<<calls, cfret[1].f>>}
            /\ encLog' = Append(encLog, [call |-> calls, draw |-> saltDraw])
            /\ UNCHANGED <<rd, saltDraw>>
  /\ UNCHANGED <<cop, calls, csecret, cout, env, encPlain, encSecret, tampered,
                 draws, drawLog>>

\* File: one pass of io.Copy's loop in stream.Encrypt, a Read of the signer
\* and the Write of what it returned through the cipher to the new file
FileCopy ==
  /\ UNCHANGED <<qvars, svars>>
  /\ UNCHANGED <<cfpc, cfname, cfi, cfattempts, cfret>>
  /\ cpc = "File.copy"
  /\ \E o \in SourceReads(rd), ew \in {"nil", "EIO"} :
       LET sr == SignerRead(signer, SubSeq(rd, 1, o.n), o.err)
           name == msg.Value
       IN IF sr.n > 0 /\ ew # "nil"
            THEN Return(NoMsg, <<>>, "copy for ecryption") /\ UNCHANGED fsys
          ELSE IF sr.err \notin {"nil", "EOF"}
            THEN Return(NoMsg, <<>>, "copy for ecryption") /\ UNCHANGED fsys
          ELSE /\ fsys' = [fsys EXCEPT ![name].data =
                             @ \o OFBXor(ckey, cpos, SubSeq(rd, 1, sr.n))]
               /\ cpos' = cpos + sr.n
               /\ rd' = SubSeq(rd, o.n + 1, Len(rd))
               /\ signer' = sr.signer
               /\ cpc' = IF sr.err = "EOF" THEN "File.sum" ELSE "File.copy"
               /\ UNCHANGED <<cret, ckey, saltDraw>>
  /\ UNCHANGED <<cop, calls, csecret, msg, cout, fds, env, encPlain, encSecret,
                 tampered, draws, drawLog, encLog>>

\* File: ReaderHashSum, the Msg and dst.Close() (taken to succeed); a return
\* with an error leaves dst open and the file in the directory
FileSum ==
  /\ UNCHANGED <<qvars, svars, fvars>>
  /\ cpc = "File.sum"
  /\ LET h == SignerHash(signer.rDone, signer.rOn, signer.rHash)
         m == MsgEncode([msg EXCEPT !.dh = h.sum], FALSE)
     IN IF h.err # "nil"
          THEN /\ Return(NoMsg, <<>>, h.err)
               /\ UNCHANGED <<msg, fds, env>>
          ELSE /\ Return(m, <<>>, "nil")
               /\ msg' = m
               /\ fds' = fds \ {<<calls, msg.Value>>}
               /\ env' = EnvOf("file", m)
  /\ UNCHANGED <<cop, calls, csecret, cout, encPlain, encSecret, tampered,
                 draws, drawLog, encLog>>

\* DecryptFile(secret, m, dst): m.decode(false)
DecryptFileCall ==
  /\ UNCHANGED <<qvars, svars, fvars>>
  /\ env.kind = "file"
  /\ \E s \in Secrets :
       LET dec == MsgDecode(MsgOf(env, env.DataHash), FALSE)
       IN /\ Enter("DecryptFile", s)
          /\ msg' = dec.m
          /\ IF dec.err # "nil" THEN Return(NoMsg, <<>>, dec.err)
             ELSE /\ cpc' = "DecryptFile.open"
                  /\ cret' = NoRet
                  /\ UNCHANGED <<ckey, rd, cpos, signer, saltDraw>>
  /\ cout' = <<>>
  /\ UNCHANGED <<fds, env, encPlain, encSecret, tampered, draws, drawLog,
                 encLog>>

\* DecryptFile: os.Open(m.Value)
DecryptFileOpen ==
  /\ UNCHANGED <<qvars, svars, fvars>>
  /\ cpc = "DecryptFile.open"
  /\ \E e \in OpenFile(fsys, msg.Value) :
       IF e # "nil"
         THEN Return(NoMsg, <<>>, "open file for decryption") /\ UNCHANGED fds
         ELSE /\ fds' = fds \cup {<<calls, msg.Value>>}
              /\ cpc' = "DecryptFile.key"
              /\ UNCHANGED <<cret, ckey, rd, cpos, signer, saltDraw>>
  /\ UNCHANGED <<cop, calls, csecret, msg, cout, env, encPlain, encSecret,
                 tampered, draws, drawLog, encLog>>

\* DecryptFile: Key, the comparison of the key hashes, NewStreamSigner and the
\* start of stream.Decrypt
DecryptFileKey ==
  /\ UNCHANGED <<qvars, svars, fvars>>
  /\ cpc = "DecryptFile.key"
  /\ LET k == Key(csecret, msg.s)
     IN IF ~SecretMatches(k.hash, msg.kh)
          THEN Return(NoMsg, <<>>, "ErrSecret")
          ELSE /\ ckey' = k.key
               /\ signer' = NewStreamSigner(FALSE, TRUE)
               /\ cpos' = 0
               /\ cpc' = "DecryptFile.copy"
               /\ UNCHANGED <<cret, rd, saltDraw>>
  /\ UNCHANGED <<cop, calls, csecret, msg, cout, fds, env, encPlain, encSecret,
                 tampered, draws, drawLog, encLog>>

\* DecryptFile: one pass of io.Copy's loop in stream.Decrypt, a Read of the
\* file through the cipher and the Write of the result to the signer
DecryptFileCopy ==
  /\ UNCHANGED <<qvars, svars, fvars>>
  /\ cpc = "DecryptFile.copy"
  /\ \E o \in FileReads(fsys[msg.Value].data, cpos) :
       IF o.err = "EOF"
         THEN /\ cpc' = "DecryptFile.sum"
              /\ UNCHANGED <<cret, ckey, rd, cpos, signer, saltDraw, cout>>
       ELSE IF o.err # "nil"
         THEN Return(NoMsg, <<>>, "copy for decryption") /\ UNCHANGED cout
       ELSE LET p == OFBXor(ckey, cpos,
                            SubSeq(fsys[msg.Value].data, cpos + 1, cpos + o.n))
            IN \E w \in DestWrites(o.n) :
                 LET sw == SignerWrite(signer, p, w.n, w.err)
                 IN /\ cout' = cout \o SubSeq(p, 1, w.n)
                    /\ IF sw.err # "nil"
                         THEN Return(NoMsg, <<>>, "copy for decryption")
                       ELSE IF sw.n # o.n
                         THEN Return(NoMsg, <<>>, "copy for decryption")
                       ELSE /\ signer' = sw.signer
                            /\ cpos' = cpos + o.n
                            /\ UNCHANGED <<cpc, cret, ckey, rd, saltDraw>>
  /\ UNCHANGED <<cop, calls, csecret, msg, fds, env, encPlain, encSecret,
                 tampered, draws, drawLog, encLog>>

\* DecryptFile: WriterHashSum, the comparison with m.dh and src.Close() (taken
\* to succeed); a return with an error leaves src open
DecryptFileSum ==
  /\ UNCHANGED <<qvars, svars, fvars>>
  /\ cpc = "DecryptFile.sum"
  /\ LET h == SignerHash(signer.wDone, signer.wOn, signer.wHash)
     IN IF h.err # "nil"
          THEN Return(NoMsg, <<>>, h.err) /\ UNCHANGED fds
        ELSE IF ~DigestMatches(h.sum, msg.dh)
          THEN Return(NoMsg, <<>>, "ErrHash") /\ UNCHANGED fds
        ELSE /\ Return(NoMsg, <<>>, "nil")
             /\ fds' = fds \ {<<calls, msg.Value>>}
  /\ UNCHANGED <<cop, calls, csecret, msg, cout, env, encPlain, encSecret,
                 tampered, draws, drawLog, encLog>>

\* between two calls somebody changes one byte of the file of the envelope
TamperFile ==
  /\ UNCHANGED <<qvars, svars>>
  /\ cpc = "idle"
  /\ calls < MaxCalls
  /\ env.kind = "file"
  /\ tampered = 0
  /\ fsys[env.Value].exists
  /\ \E i \in 1..Len(fsys[env.Value].data), x \in {1, 255} :
       fsys' = [fsys EXCEPT ![env.Value].data[i] = Xor(@, x)]
  /\ tampered' = calls + 1
  /\ UNCHANGED <<cfpc, cfname, cfi, cfattempts, cfret>>
  /\ UNCHANGED <<cpc, cop, calls, csecret, msg, ckey, rd, cpos, signer, cout,
                 cret, fds, env, encPlain, encSecret, draws, saltDraw, drawLog,
                 encLog>>

\* between two calls somebody removes the file of the envelope
RemoveFile ==
  /\ UNCHANGED <<qvars, svars, cvars>>
  /\ cpc = "idle"
  /\ calls < MaxCalls
  /\ env.kind = "file"
  /\ fsys[env.Value].exists
  /\ fsys' = [fsys EXCEPT ![env.Value] = NoFile]
  /\ UNCHANGED <<cfpc, cfname, cfi, cfattempts, cfret>>

\* ========================================================== stream signer
\* the byte strings one Read delivers or one Write is given
Chunks == UNION {[1..k -> {97, 98}] : k \in 0..MaxChunk}

\* what s.R.Read can return with the bytes it delivered
ReadErrors == {"nil", "EOF", "EIO"}

SIdle ==
  /\ sig = NewStreamSigner(TRUE, TRUE)
  /\ srcBytes = <<>>
  /\ dstBytes = <<>>
  /\ sigRet = [op |-> "none", n |-> 0, err |-> "nil", un |-> 0]
  /\ sigCalls = 0

\* a caller calls Read: the source delivers data and returns err
SignerReadCall ==
  /\ UNCHANGED <<qvars, fvars, cvars>>
  /\ sigCalls < MaxSignerCalls
  /\ \E data \in Chunks, err \in ReadErrors :
       LET r == SignerRead(sig, data, err)
       IN /\ sig' = r.signer
          /\ srcBytes' = srcBytes \o data
          /\ sigRet' = [op |-> "Read", n |-> r.n, err |-> r.err,
                        un |-> Len(data)]
  /\ sigCalls' = sigCalls + 1
  /\ UNCHANGED dstBytes

\* a caller calls Write(p): the destination accepts the first n bytes
SignerWriteCall ==
  /\ UNCHANGED <<qvars, fvars, cvars>>
  /\ sigCalls < MaxSignerCalls
  /\ \E p \in Chunks :
       \E w \in DestWrites(Len(p)) :
         LET r == SignerWrite(sig, p, w.n, w.err)
         IN /\ sig' = r.signer
            /\ dstBytes' = dstBytes \o SubSeq(p, 1, w.n)
            /\ sigRet' = [op |-> "Write", n |-> r.n, err |-> r.err, un |-> w.n]
  /\ sigCalls' = sigCalls + 1
  /\ UNCHANGED srcBytes

\* the values of the other parts of the program while one part runs alone
QIdle == QInit /\ size = 0
FIdle == fsys = [n \in FileNames |-> NoFile] /\ CfIdle
\* a directory that is empty or holds every name createFile can generate
FFull ==
  /\ \E old \in {{}, RandomNames} :
       fsys = [n \in FileNames |-> IF n \in old THEN OldFile ELSE NoFile]
  /\ CfIdle

\* concurrent Limit calls on one Storage
NextReserve ==
  \E p \in Callers :
    \/ CallLimit(p)
    \/ Lock(p)
    \/ LimitCheck(p)
    \/ LimitCommit(p)
    \/ Unlock(p)

InitReserve == QInit /\ FIdle /\ CIdle /\ SIdle

SpecReserve == InitReserve /\ [][NextReserve]_vars

\* concurrent Limit and initLimits calls on one Storage
NextQuota ==
  \E p \in Callers :
    \/ CallLimit(p)
    \/ CallInitLimits(p)
    \/ Lock(p)
    \/ LimitCheck(p)
    \/ LimitCommit(p)
    \/ InitLimitsScan(p)
    \/ Unlock(p)

InitQuota == QInit /\ FIdle /\ CIdle /\ SIdle

SpecQuota == InitQuota /\ [][NextQuota]_vars

\* concurrent createFile calls on one base directory
NextFiles ==
  \E p \in Creators :
    \/ CallCreateFile(p)
    \/ CreateFileAttempt(p)
    \/ CreateFileExhausted(p)

InitFiles == QIdle /\ FInit /\ CIdle /\ SIdle

SpecFiles == InitFiles /\ [][NextFiles]_vars

\* the same, every goroutine that is inside createFile keeps running
SpecFilesFair ==
  /\ InitFiles
  /\ [][NextFiles]_vars
  /\ \A p \in Creators :
       WF_vars(CreateFileAttempt(p) \/ CreateFileExhausted(p))

\* one goroutine encrypts and decrypts texts
NextText ==
  \/ TextCall
  \/ DecryptTextCall
  \/ DecryptTextDecrypt

InitText == QIdle /\ FIdle /\ CIdle /\ SIdle

SpecText == InitText /\ [][NextText]_vars

\* one goroutine encrypts and decrypts files (it lets createFile pick the
\* names), and the files change between its calls
NextCrypt ==
  \/ FileCall
  \/ CreateFileAttempt(1)
  \/ CreateFileExhausted(1)
  \/ FileCreated
  \/ FileCopy
  \/ FileSum
  \/ DecryptFileCall
  \/ DecryptFileOpen
  \/ DecryptFileKey
  \/ DecryptFileCopy
  \/ DecryptFileSum
  \/ TamperFile
  \/ RemoveFile

InitCrypt == QIdle /\ FFull /\ CIdle /\ SIdle

SpecCrypt == InitCrypt /\ [][NextCrypt]_vars

\* a caller reads and writes through one StreamSigner
NextSigner ==
  \/ SignerReadCall
  \/ SignerWriteCall

InitSigner == QIdle /\ FIdle /\ CIdle /\ SIdle

SpecSigner == InitSigner /\ [][NextSigner]_vars

\* ================================================================= claims
\* the sum of f[p] over the goroutines p of S
RECURSIVE SumOver(_, _)
SumOver(f, S) ==
  IF S = {} THEN 0
  ELSE LET p == CHOOSE q \in S : TRUE IN f[p] + SumOver(f, S \ {p})

\* the Limit calls that have committed
Admitted == {p \in Callers : qerr[p] = "nil"}
\* the Limit calls rejected with ErrSizeLimit
Rejected == {p \in Callers : qerr[p] = "ErrSizeLimit"}
AllReturned == \A p \in Callers : qpc[p] = "done"

\* C1: in every interleaving of concurrent Limit calls on a Storage that starts
\* with limit = 0, limit is the sum of v over the calls that committed and never
\* passes Size; when every call asked for the same v > 0 and all have returned,
\* exactly min(NumCallers, Size / v) were admitted and the others got
\* ErrSizeLimit (Size = 200, v = 60: 3 admitted, limit = 180).
C1_ReserveAtomic ==
  /\ limit = SumOver(qv, Admitted)
  /\ limit <= size
  /\ \A v \in ReserveSizes \ {0} :
       (AllReturned /\ \A p \in Callers : qv[p] = v) =>
          /\ Cardinality(Admitted) = Min(NumCallers, size \div v)
          /\ Cardinality(Rejected) = NumCallers - Cardinality(Admitted)
          /\ limit = v * Min(NumCallers, size \div v)

\* C1 witness: every goroutine asked for 60 of a capacity of 200, all returned,
\* some were admitted and some rejected
C1_Witness ==
  /\ AllReturned
  /\ size = 200
  /\ \A p \in Callers : qv[p] = 60
  /\ Admitted # {}
  /\ Rejected # {}
  /\ limit = 180

\* C2: a Limit(v) call that finds limit + v <= Size commits limit + v, returns
\* nil and leaves Size alone, so limit <= Size after it; one that finds
\* limit + v > Size returns ErrSizeLimit and changes neither limit nor Size.
C2_ReserveContract ==
  [][\A p \in Callers :
       /\ (qpc[p] = "check" /\ qpc'[p] = "commit") =>
             /\ limit + qv[p] <= size
             /\ UNCHANGED <<limit, size>>
       /\ (qpc[p] = "check" /\ qpc'[p] = "unlock") =>
             /\ limit + qv[p] > size
             /\ qerr'[p] = "ErrSizeLimit"
             /\ UNCHANGED <<limit, size>>
       /\ (qpc[p] = "commit" /\ qpc'[p] = "commit") =>
             UNCHANGED <<limit, size>>
       /\ (qpc[p] = "commit" /\ qpc'[p] = "unlock") =>
             /\ limit' = limit + qv[p]
             /\ limit' <= size'
             /\ size' = size
             /\ qerr'[p] = "nil"
       /\ (qcall[p] = "Limit" /\ qpc[p] = "unlock" /\ qpc'[p] = "done") =>
             /\ UNCHANGED <<limit, size>>
             /\ qerr'[p] = qerr[p]
             /\ qerr[p] \in {"nil", "ErrSizeLimit"}
  ]_vars

\* C2 witness: one call was admitted up to the capacity exactly, another was
\* rejected
C2_Witness ==
  /\ limit = size
  /\ limit > 0
  /\ \E p, q \in Callers :
       /\ qpc[p] = "done" /\ qerr[p] = "nil" /\ qv[p] > 0
       /\ qpc[q] = "done" /\ qerr[q] = "ErrSizeLimit"

\* the sum of the sizes of the regular files of a directory listing
RECURSIVE SumFileSizes(_)
SumFileSizes(entries) ==
  IF entries = <<>> THEN 0
  ELSE (IF Head(entries).isDir THEN 0 ELSE Head(entries).size)
       + SumFileSizes(Tail(entries))

\* C8 (as claimed): every successful initLimits sets limit to the sum of the
\* sizes of the regular files of the directory and Size to Size << 20, whatever
\* limit held before; it fails when the directory cannot be read.
C8_InitializeSetsSum ==
  [][\A p \in Callers :
       (qpc[p] = "scan" /\ qpc'[p] = "unlock") =>
          IF qerr'[p] = "nil"
            THEN /\ limit' = SumFileSizes(qdir'[p])
                 /\ size' = ShiftMB(size)
            ELSE UNCHANGED <<limit, size>> \/ qerr'[p] = "ErrInfo"
  ]_vars

\* the createFile calls that returned a file
Created == {p \in Creators : cfpc[p] = "done" /\ cfret[p].err = "nil"}

\* C9: concurrent createFile calls need no lock: in every interleaving a call
\* that succeeds returns the file it created itself (not one that existed, not
\* one another call created), the calls that succeed return distinct files
\* (all NumCreators of them when every call succeeds), and no step changes or
\* removes a file that exists.
C9_ConcurrentCreate ==
  /\ [](/\ \A p \in Created :
             /\ cfret[p].f \in FileNames
             /\ fsys[cfret[p].f].exists
             /\ fsys[cfret[p].f].creator = p
        /\ \A p, q \in Created : p # q => cfret[p].f # cfret[q].f
        /\ Created = Creators =>
             Cardinality({cfret[p].f : p \in Creators}) = NumCreators
        /\ \A n \in FileNames : fsys[n].creator = 0 => fsys[n] \in {OldFile, NoFile})
  /\ [][\A n \in FileNames : fsys[n].exists => fsys'[n] = fsys[n]]_vars

\* C9 witness: every call asked for a random name and got a file, one of them
\* after a name collision
C9_Witness ==
  /\ Created = Creators
  /\ \A p \in Creators : cfattempts[p] = fileCreateAttempts
  /\ \E p \in Creators : cfi[p] > 0

\* the DecryptText call has returned
DecryptTextReturned == cop = "DecryptText" /\ cpc = "idle"

\* the DecryptFile call has returned
DecryptFileReturned == cop = "DecryptFile" /\ cpc = "idle"

\* a byte of the envelope's file was changed before the call that runs or ran
\* last
Tampered == tampered # 0 /\ tampered <= calls

\* Key for the secrets of the callers and the salts crypto/rand delivers
KeyTable ==
  [a \in Secrets \X {r.value : r \in {o \in Random(saltSize) : ~o.err}} |->
     Key(a[1], a[2])]

\* C3: every File call draws its salt from crypto/rand itself and derives the
\* key of its stream encryption from that salt before the encryption starts:
\* each stream encryption runs under Key(secret, salt) for the salt its own
\* call drew, and no two stream encryptions use a key derived from the same
\* draw, whatever the secrets and the streams.
C3_FreshSaltPerFile ==
  /\ \A i \in 1..Len(encLog) :
       /\ encLog[i].draw \in 1..draws
       /\ drawLog[encLog[i].draw].call = encLog[i].call
       /\ \A j \in 1..Len(encLog) : j # i => encLog[j].draw # encLog[i].draw
  /\ cpc \in {"File.copy", "File.sum"} =>
       /\ encLog # <<>>
       /\ encLog[Len(encLog)] = [call |-> calls, draw |-> saltDraw]
       /\ msg.s = drawLog[saltDraw].salt
       /\ ckey = KeyTable[<<csecret, msg.s>>].key

\* C3 witness: the second of two File calls with the same secret runs its
\* stream encryption, under another salt and another key than the first
C3_Witness ==
  /\ Len(encLog) = 2
  /\ cpc = "File.copy"
  /\ cpos > 0
  /\ encLog[1].draw # encLog[2].draw
  /\ drawLog[encLog[1].draw].salt # msg.s
  /\ ckey # KeyTable[<<csecret, drawLog[encLog[1].draw].salt>>].key

\* C4: for every byte stream b (the empty one included) and every secret s,
\* File(s, b) succeeds and DecryptFile with the same secret and the envelope
\* File returned writes exactly b and returns nil: File never fails on the
\* hash, and a DecryptFile of the untouched file that returns nil has written
\* b, and it never fails on the secret or the hash.
C4_FileRoundTrip ==
  /\ (cop = "File" /\ cpc = "idle") => cret.err # "ErrHash"
  /\ (DecryptFileReturned /\ csecret = encSecret /\ ~Tampered) =>
       /\ cret.err \notin {"ErrHash", "ErrSecret"}
       /\ cret.err = "nil" => cout = encPlain

\* C5: DecryptText(s2, Text(s1, p)) for a non-empty p, the envelope as Text
\* returned it: with s2 = s1 it returns p, with another s2 it fails with
\* ErrSecret and returns no text; text.Decrypt runs only after the key hashes
\* were found equal.
C5_TextRoundTrip ==
  /\ (DecryptTextReturned /\ msg.DataHash = <<>>) =>
       IF csecret = encSecret
         THEN cret.err = "nil" /\ cret.text = encPlain /\ Len(encPlain) > 0
         ELSE cret.err = "ErrSecret" /\ cret.text = <<>>
  /\ cpc = "DecryptText.decrypt" =>
       /\ csecret = encSecret
       /\ HmacEqual(Key(csecret, msg.s).hash, msg.kh)

\* C5 witness: the round trip of "hi" with the secret of the encryption
C5_Witness ==
  /\ DecryptTextReturned
  /\ msg.DataHash = <<>>
  /\ csecret = encSecret
  /\ cret.err = "nil"
  /\ cret.text = <<104, 105>>

\* C6: in DecryptFile the comparison of the key hashes precedes every access
\* to the file: with a secret whose key hash differs from the envelope's the
\* call never opens the file, writes nothing and returns ErrSecret, whether
\* the file is there or not.
C6_FingerprintBeforeFile ==
  (cop = "DecryptFile" /\ ~HmacEqual(Key(csecret, msg.s).hash, msg.kh)) =>
     /\ <<calls, msg.Value>> \notin fds
     /\ cout = <<>>
     /\ cpc = "idle" => cret.err = "ErrSecret"

\* C7: after one byte of the file File wrote was changed, DecryptFile with the
\* secret of the encryption and the envelope File returned never returns nil:
\* it returns ErrHash, or the error of an open, read or write that failed; once
\* every byte was copied the hash comparison fails.
C7_TamperDetected ==
  /\ (DecryptFileReturned /\ Tampered /\ csecret = encSecret) =>
       cret.err \in {"ErrHash", "open file for decryption", "copy for decryption"}
  /\ (cop = "DecryptFile" /\ cpc = "DecryptFile.sum" /\ Tampered
        /\ csecret = encSecret) =>
       LET h == SignerHash(signer.wDone, signer.wOn, signer.wHash)
       IN h.err = "ErrHash" \/ ~HmacEqual(h.sum, msg.dh)

\* C7 witness: the changed file was decrypted to the end, the bytes are written
\* and the call returned ErrHash
C7_Witness ==
  /\ DecryptFileReturned
  /\ Tampered
  /\ csecret = encSecret
  /\ cret.err = "ErrHash"
  /\ Len(cout) = Len(fsys[msg.Value].data)
  /\ cout # <<>>

\* what DecryptText returns for the envelope of the last Text call when the
\* DataHash field does not matter
TextOutcome ==
  IF csecret = encSecret THEN [err |-> "nil", text |-> encPlain]
  ELSE [err |-> "ErrSecret", text |-> <<>>]

\* C10 as stated: DecryptText does not depend on the DataHash field of the
\* envelope: its outcome is the same for every content of the field, so with
\* the secret of the encryption it returns the plaintext whatever DataHash
\* holds.
C10_DataHashIgnored ==
  DecryptTextReturned =>
    /\ cret.err = TextOutcome.err
    /\ cret.text = TextOutcome.text

\* C10 amended: DecryptText decodes DataHash with the other fields: for an
\* empty DataHash and for every DataHash that is well-formed hex the outcome is
\* the same (the plaintext with the secret of the encryption, ErrSecret with
\* another); for a DataHash that is not well-formed hex the call fails with the
\* decode error of the data hash and returns no text.
C10_DataHashDecoded ==
  DecryptTextReturned =>
    IF HexDecode(msg.DataHash).err
      THEN cret.err = "hex decode data hash" /\ cret.text = <<>>
      ELSE cret.err = TextOutcome.err /\ cret.text = TextOutcome.text

\* C10 witness: a well-formed DataHash that is no hash of anything, and the
\* plaintext is returned
C10_Witness ==
  /\ DecryptTextReturned
  /\ msg.DataHash = <<"0", "0", "f", "f">>
  /\ csecret = encSecret
  /\ cret.err = "nil"
  /\ cret.text = encPlain

\* C11: createFile ends after a bounded number of exclusive creations: one
\* when a name is given, at most fileCreateAttempts when none is given.  It
\* tries again only after a name collision, and then with a name it generates
\* anew; a failure of the random source or any other error of the creation
\* ends the call at once; when every attempt collides the call fails with the
\* exhaustion error, having created and opened no file.  Every call returns.
C11_BoundedAttempts ==
  /\ [](\A p \in Creators :
          /\ cfi[p] <= cfattempts[p]
          /\ cfattempts[p] <= fileCreateAttempts
          /\ cfname[p] # "" => (cfattempts[p] = 1 /\ cfi[p] = 0))
  /\ [][\A p \in Creators :
          /\ (cfpc[p] = "idle" /\ cfpc'[p] = "loop") =>
               /\ cfi'[p] = 0
               /\ cfattempts'[p] =
                    IF cfname'[p] # "" THEN 1 ELSE fileCreateAttempts
          /\ (cfpc[p] = "loop" /\ cfpc'[p] = "loop" /\ cfi'[p] # cfi[p]) =>
               /\ cfi[p] < cfattempts[p]
               /\ cfi'[p] = cfi[p] + 1
               /\ cfname'[p] = ""
               /\ fsys' = fsys
               /\ IF cfname[p] # "" THEN fsys[cfname[p]].exists
                  ELSE \E n \in RandomNames : fsys[n].exists
          /\ (cfpc[p] = "loop" /\ cfpc'[p] = "done") =>
               IF cfret'[p].err = "nil"
                 THEN /\ cfi[p] < cfattempts[p]
                      /\ cfret'[p].f \in FileNames
                      /\ cfname[p] # "" => cfret'[p].f = cfname[p]
                      /\ cfname[p] = "" => cfret'[p].f \in RandomNames
                      /\ ~fsys[cfret'[p].f].exists
                      /\ fsys'[cfret'[p].f].creator = p
               ELSE IF cfret'[p].err \in {"random file name", "random file creation"}
                 THEN /\ cfi[p] < cfattempts[p]
                      /\ cfi'[p] = cfi[p]
                      /\ cfret'[p].f = NoHandle
                      /\ fsys' = fsys
               ELSE /\ cfret'[p].err = "can not create new file"
                    /\ cfi[p] = cfattempts[p]
                    /\ cfret'[p].f = NoHandle
                    /\ fsys' = fsys
                    /\ \A n \in FileNames : fsys[n].creator # p
     ]_vars
  /\ \A p \in Creators : (cfpc[p] = "loop") ~> (cfpc[p] = "done")

\* C11 witness: a call without a name has met a collision in each of its
\* fileCreateAttempts attempts and returned the exhaustion error, while a call
\* with a name has failed after its single attempt
C11_Witness ==
  \E p, q \in Creators :
    /\ cfpc[p] = "done" /\ cfpc[q] = "done"
    /\ cfattempts[p] = fileCreateAttempts /\ cfi[p] = fileCreateAttempts
    /\ cfattempts[q] = 1 /\ cfi[q] = 1
    /\ cfret[p].err = "can not create new file"
    /\ cfret[q].err = "can not create new file"

\* C12: after any sequence of Read and Write calls through a StreamSigner the
\* read hash was fed exactly the bytes the source delivered, the write hash
\* exactly the bytes the destination accepted, and each call returned the count
\* of its stream, also when the stream transferred bytes and returned an error
\* in the same call.
C12_ExactAccumulators ==
  /\ sig.rHash = srcBytes
  /\ sig.wHash = dstBytes
  /\ sigRet.n = sigRet.un

\* C13: DecryptFile compares the data hashes only after the whole decrypted
\* stream was written: ErrHash is returned only by the step after the copy, and
\* at that step the destination holds every decrypted byte of the file; the
\* return leaves the destination as it is.
C13_CompareAfterWrite ==
  /\ [](cpc = "DecryptFile.sum" =>
          /\ cpos = Len(fsys[msg.Value].data)
          /\ cout = OFBXor(ckey, 0, fsys[msg.Value].data)
          /\ signer.wHash = cout)
  /\ [][(cop' = "DecryptFile" /\ cpc # "idle" /\ cpc' = "idle"
           /\ cret'.err = "ErrHash") =>
          /\ cpc = "DecryptFile.sum"
          /\ cout' = cout
          /\ fsys' = fsys
          /\ cout = OFBXor(ckey, 0, fsys[msg.Value].data)
     ]_vars

\* C13 witness: DecryptFile has returned ErrHash for a file of two bytes, one of
\* them changed, and the destination holds the two bytes of the decryption,
\* which are not the stream that was encrypted
C13_Witness ==
  /\ DecryptFileReturned
  /\ cret.err = "ErrHash"
  /\ Len(fsys[msg.Value].data) = 2
  /\ cout = OFBXor(KeyTable[<<csecret, msg.s>>].key, 0, fsys[msg.Value].data)
  /\ cout # encPlain

=============================================================================
